---------------------------- MODULE Spec2Model ----------------------------
(***************************************************************************)
(* Model of public/assets/Sprites/Monsters/resize.py: the batch resizer    *)
(* main() that walks range(1, 51), builds NNN.png in the script directory, *)
(* and calls resize_image() on every path that exists.  The file system is *)
(* a function from paths to file contents; the image library's open,       *)
(* resize and save either complete or raise.                               *)
(***************************************************************************)
EXTENDS Integers, Sequences, FiniteSets, TLC

VARIABLES
    disk,         \* the file system: path -> content, for the paths that exist
    disk0,        \* the file system when main() was invoked
    run,          \* number of invocations of main() so far
    pc,           \* position of the program
    i,            \* loop variable of main()
    filename,     \* local of main()
    file_path,    \* local of main(), parameter of resize_image()
    img,          \* the image opened by `with Image.open(file_path) as img`
    resized_img,  \* result of img.resize
    handles,      \* paths that have an open image handle
    exc,          \* exception in flight inside resize_image ("" when none)
    out,          \* console output, one string per print
    \* histories, kept since the first invocation
    considered,   \* history: indices the loop took, in order
    existsLog,    \* history: result of os.path.exists for each considered index
    attempts,     \* history: paths resize_image was called on, in order
    raisedLog,    \* history: paths whose open/resize/save raised
    savedLog,     \* history: paths whose save completed
    touched       \* history: paths opened or written by the image library

vars == <<disk, disk0, run, pc, i, filename, file_path, img, resized_img,
          handles, exc, out, considered, existsLog, attempts, raisedLog,
          savedLog, touched>>

---------------------------------------------------------------------------
(* Program constants *)

\* "Process images from 001.png to 050.png"
FirstIndex == 1
LastIndex == 50
\* range(1, 51)
RangeStart == 1
RangeStop == 51
\* zfill(3)
PadWidth == 3
\* size=(128, 128)
TargetW == 128
TargetH == 128

(* Bounds of the model *)

\* The first index and the last MaxPopulated indices of 001..050 may hold a
\* file when main() is invoked; every other in-range name is absent.
MaxPopulated == 2
\* Invocations of main() in the specification that runs it repeatedly.
MaxRuns == 2

---------------------------------------------------------------------------
(* Strings *)

Digit(d) ==
    CASE d = 0 -> "0" [] d = 1 -> "1" [] d = 2 -> "2" [] d = 3 -> "3"
      [] d = 4 -> "4" [] d = 5 -> "5" [] d = 6 -> "6" [] d = 7 -> "7"
      [] d = 8 -> "8" [] d = 9 -> "9"

\* str(i) for a non-negative integer
RECURSIVE Str(_)
Str(n) == IF n < 10 THEN Digit(n) ELSE Str(n \div 10) \o Digit(n % 10)

\* s.zfill(width): pad on the left with "0" up to width, never truncate
RECURSIVE ZFill(_, _)
ZFill(s, width) == IF Len(s) >= width THEN s ELSE ZFill("0" \o s, width)

\* the name built without the zero padding
FileNameNoPad(n) == Str(n) \o ".png"

\* f"{str(i).zfill(3)}.png"
FileName(n) == ZFill(Str(n), PadWidth) \o ".png"

\* os.path.join(current_dir, filename)
Join(dir, name) == dir \o "/" \o name

\* os.path.dirname(os.path.abspath(__file__))
ScriptDir == "/app/public/assets/Sprites/Monsters"

\* the process's working directory, which main() does not consult
WorkDir == "/app"

\* a range that stops one index early
RangeShort == RangeStart .. (RangeStop - 2)

\* range(1, 51)
Range == RangeStart .. (RangeStop - 1)

\* the name NNN.png as it stands on disk: three decimal digits and ".png"
DiskName(n) ==
    Digit(n \div 100) \o Digit((n \div 10) % 10) \o Digit(n % 10) \o ".png"

\* the path of NNN.png in the script directory, for each index 1..50
PathAt == [n \in FirstIndex .. LastIndex |-> Join(ScriptDir, DiskName(n))]

InRangePath(n) == PathAt[n]

InRangePaths == { PathAt[n] : n \in FirstIndex .. LastIndex }

\* Paths main() has no business with: names outside 001.png..050.png in the
\* script directory, and an in-range name in another directory.
OtherPaths ==
    { Join(ScriptDir, "000.png"), Join(ScriptDir, "051.png"),
      Join(ScriptDir, "1.png"), Join(ScriptDir, "001.jpg"),
      Join(WorkDir, "001.png") }

---------------------------------------------------------------------------
(* File contents and images *)

\* A file is a decodable image, an image whose header decodes and whose
\* pixel data does not (truncated), or not an image at all (corrupt).
Image(w, h) == [kind |-> "image", w |-> w, h |-> h]
Truncated(w, h) == [kind |-> "truncated", w |-> w, h |-> h]
Corrupt == [kind |-> "corrupt", w |-> 0, h |-> 0]

InitialContents ==
    { Image(TargetW, TargetH), Image(256, 64), Truncated(256, 64), Corrupt }

OtherContent == Image(300, 200)

NoImage == [path |-> "", w |-> 0, h |-> 0, intact |-> FALSE]

\* os.path.exists(path)
Exists(path) == path \in DOMAIN disk

\* writing content c at path p (creates the file if it was absent)
Write(d, p, c) == [q \in DOMAIN d \cup {p} |-> IF q = p THEN c ELSE d[q]]

---------------------------------------------------------------------------
(* Exceptions *)

\* the base class of each exception class the library raises here
Parent(c) ==
    CASE c = "UnidentifiedImageError" -> "OSError"
      [] c = "PermissionError" -> "OSError"
      [] c = "FileNotFoundError" -> "OSError"
      [] c = "OSError" -> "Exception"
      [] c = "Exception" -> "BaseException"
      [] OTHER -> "object"

RECURSIVE IsSubclass(_, _)
IsSubclass(c, base) ==
    IF c = base THEN TRUE
    ELSE IF c = "object" THEN FALSE
    ELSE IsSubclass(Parent(c), base)

\* an except clause that names the library's own error class only
CatchesUnidentified(e) == IsSubclass(e, "UnidentifiedImageError")

\* `except Exception as e`
Catches(e) == IsSubclass(e, "Exception")

\* whether Image.open(path) returns an image (it reads the header only)
CanOpen(path) == Exists(path) /\ disk[path].kind \in {"image", "truncated"}

\* what Image.open(path) raises when it does not
OpenError(path) ==
    IF ~Exists(path) THEN "FileNotFoundError" ELSE "UnidentifiedImageError"

---------------------------------------------------------------------------
(* Console lines *)

SuccessLine(path) == "Successfully resized " \o path
ErrorLine(path, e) == "Error processing " \o path \o ": " \o e
NotFoundLine(name) == "File not found: " \o name

---------------------------------------------------------------------------
(* Initial states *)

\* the in-range indices that may hold a file when main() is invoked
LastFew == (LastIndex - MaxPopulated + 1) .. LastIndex
Populated == {FirstIndex} \cup LastFew

\* the file systems main() may be invoked on: in-range files at indices of P
\* with contents from C, the other paths all there or all missing
Disks(C, P) ==
    { [p \in {InRangePath(n) : n \in DOMAIN f} \cup O |->
          IF p \in O THEN OtherContent
          ELSE f[CHOOSE n \in DOMAIN f : InRangePath(n) = p]] :
        f \in UNION { [S -> C] : S \in SUBSET P },
        O \in {{}, OtherPaths} }

InitWith(C, P) ==
    /\ disk \in Disks(C, P)
    /\ disk0 = disk
    /\ run = 0
    /\ pc = "idle"
    /\ i = 0
    /\ filename = ""
    /\ file_path = ""
    /\ img = NoImage
    /\ resized_img = NoImage
    /\ handles = {}
    /\ exc = ""
    /\ out = <<>>
    /\ considered = <<>>
    /\ existsLog = <<>>
    /\ attempts = <<>>
    /\ raisedLog = <<>>
    /\ savedLog = <<>>
    /\ touched = {}

Init == InitWith(InitialContents, Populated)

---------------------------------------------------------------------------
(* main() *)

\* os.path.dirname(os.path.abspath(__file__))
CurrentDir == ScriptDir

\* `if __name__ == "__main__": main()`, up to the loop header
Enter ==
    /\ run' = run + 1
    /\ disk0' = disk
    /\ pc' = "for"
    /\ i' = RangeStart - 1
    /\ filename' = ""
    /\ file_path' = ""
    /\ UNCHANGED <<disk, img, resized_img, handles, exc, out, considered,
                   existsLog, attempts, raisedLog, savedLog, touched>>

Invoke ==
    /\ pc = "idle"
    /\ Enter

\* the same program run once more after it has returned
Reinvoke ==
    /\ pc = "done"
    /\ run < MaxRuns
    /\ Enter

\* the loop takes its next index and builds filename and file_path
Take(n) ==
    /\ i' = n
    /\ filename' = FileName(n)
    /\ file_path' = Join(CurrentDir, FileName(n))
    /\ considered' = Append(considered, n)
    /\ existsLog' = Append(existsLog, Exists(Join(CurrentDir, FileName(n))))

\* one iteration whose path exists: resize_image(file_path) is called
IterExists ==
    /\ pc = "for"
    /\ i + 1 \in Range
    /\ Exists(Join(CurrentDir, FileName(i + 1)))
    /\ Take(i + 1)
    /\ attempts' = Append(attempts, Join(CurrentDir, FileName(i + 1)))
    /\ pc' = "open"
    /\ UNCHANGED <<disk, disk0, run, img, resized_img, handles, exc, out,
                   raisedLog, savedLog, touched>>

\* a not-found branch that skips the file without a line
IterMissingSilent ==
    /\ pc = "for"
    /\ i + 1 \in Range
    /\ ~Exists(Join(CurrentDir, FileName(i + 1)))
    /\ Take(i + 1)
    /\ pc' = "for"
    /\ UNCHANGED <<disk, disk0, run, img, resized_img, handles, exc, out,
                   attempts, raisedLog, savedLog, touched>>

\* one iteration whose path does not exist: the not-found line
IterMissing ==
    /\ pc = "for"
    /\ i + 1 \in Range
    /\ ~Exists(Join(CurrentDir, FileName(i + 1)))
    /\ Take(i + 1)
    /\ out' = Append(out, NotFoundLine(FileName(i + 1)))
    /\ pc' = "for"
    /\ UNCHANGED <<disk, disk0, run, img, resized_img, handles, exc, attempts,
                   raisedLog, savedLog, touched>>

\* the range is exhausted: main() returns
ForEnd ==
    /\ pc = "for"
    /\ i + 1 \notin Range
    /\ pc' = "done"
    /\ UNCHANGED <<disk, disk0, run, i, filename, file_path, img, resized_img,
                   handles, exc, out, considered, existsLog, attempts,
                   raisedLog, savedLog, touched>>

---------------------------------------------------------------------------
(* resize_image(file_path, size=(128, 128)) *)

\* the default of the size parameter
Size == <<TargetW, TargetH>>

\* a resize that keeps the image's own size
ResizeKeepsSize(im, size) ==
    [path |-> "", w |-> im.w, h |-> im.h, intact |-> TRUE]

\* a resize by a factor instead of to a size
ResizeHalf(im, size) ==
    [path |-> "", w |-> im.w \div 2, h |-> im.h \div 2, intact |-> TRUE]

\* img.resize(size, Image.Resampling.LANCZOS): a new image of exactly `size`
Resize(im, size) ==
    [path |-> "", w |-> size[1], h |-> size[2], intact |-> TRUE]

\* a save under the next index's name
SaveTargetNextName == Join(ScriptDir, FileName(i + 1))

\* resized_img.save(file_path): the path that is written
SaveTarget == file_path

\* resize_image returns to the loop of main(); its locals are gone
Return ==
    /\ pc' = "for"
    /\ img' = NoImage
    /\ resized_img' = NoImage

\* `with Image.open(file_path) as img` opens the file and reads its header
OpenOk ==
    /\ pc = "open"
    /\ CanOpen(file_path)
    /\ img' = [path |-> file_path, w |-> disk[file_path].w,
               h |-> disk[file_path].h,
               intact |-> disk[file_path].kind = "image"]
    /\ handles' = handles \cup {file_path}
    /\ touched' = touched \cup {file_path}
    /\ pc' = "resize"
    /\ UNCHANGED <<disk, disk0, run, i, filename, file_path, resized_img, exc,
                   out, considered, existsLog, attempts, raisedLog, savedLog>>

\* Image.open raises: the file is not an image
OpenRaise ==
    /\ pc = "open"
    /\ ~CanOpen(file_path)
    /\ exc' = OpenError(file_path)
    /\ raisedLog' = Append(raisedLog, file_path)
    /\ touched' = touched \cup {file_path}
    /\ pc' = "except"
    /\ UNCHANGED <<disk, disk0, run, i, filename, file_path, img, resized_img,
                   handles, out, considered, existsLog, attempts, savedLog>>

\* img.resize loads the pixel data and resamples it
ResizeOk ==
    /\ pc = "resize"
    /\ img.intact
    /\ resized_img' = Resize(img, Size)
    /\ pc' = "save"
    /\ UNCHANGED <<disk, disk0, run, i, filename, file_path, img, handles, exc,
                   out, considered, existsLog, attempts, raisedLog, savedLog,
                   touched>>

\* img.resize raises: the pixel data is truncated
ResizeRaise ==
    /\ pc = "resize"
    /\ ~img.intact
    /\ exc' = "OSError"
    /\ raisedLog' = Append(raisedLog, file_path)
    /\ pc' = "exit"
    /\ UNCHANGED <<disk, disk0, run, i, filename, file_path, img, resized_img,
                   handles, out, considered, existsLog, attempts, savedLog,
                   touched>>

\* resized_img.save(file_path) completes: the file holds the resized image
SaveOk ==
    /\ pc = "save"
    /\ disk' = Write(disk, SaveTarget,
                     Image(resized_img.w, resized_img.h))
    /\ savedLog' = Append(savedLog, file_path)
    /\ touched' = touched \cup {SaveTarget}
    /\ pc' = "print"
    /\ UNCHANGED <<disk0, run, i, filename, file_path, img, resized_img,
                   handles, exc, out, considered, existsLog, attempts,
                   raisedLog>>

\* resized_img.save raises: the file could not be opened for writing (it is
\* left as it was), or the write failed part-way (it is left empty or cut)
SaveRaise ==
    /\ pc = "save"
    /\ \/ /\ exc' = "PermissionError"
          /\ disk' = disk
       \/ /\ exc' = "OSError"
          /\ \E c \in {Corrupt, Truncated(resized_img.w, resized_img.h)} :
                disk' = Write(disk, SaveTarget, c)
    /\ raisedLog' = Append(raisedLog, file_path)
    /\ touched' = touched \cup {SaveTarget}
    /\ pc' = "exit"
    /\ UNCHANGED <<disk0, run, i, filename, file_path, img, resized_img,
                   handles, out, considered, existsLog, attempts, savedLog>>

\* print(f"Successfully resized {file_path}")
PrintSuccess ==
    /\ pc = "print"
    /\ out' = Append(out, SuccessLine(file_path))
    /\ pc' = "exit"
    /\ UNCHANGED <<disk, disk0, run, i, filename, file_path, img, resized_img,
                   handles, exc, considered, existsLog, attempts, raisedLog,
                   savedLog, touched>>

\* an image closed at the end of the block only, not when it is left by an
\* exception
WithExitLeak ==
    /\ pc = "exit"
    /\ IF exc = ""
       THEN /\ handles' = handles \ {img.path}
            /\ Return
       ELSE /\ pc' = "except"
            /\ UNCHANGED <<handles, img, resized_img>>
    /\ UNCHANGED <<disk, disk0, run, i, filename, file_path, exc, out,
                   considered, existsLog, attempts, raisedLog, savedLog,
                   touched>>

\* leaving the with block closes img, with or without an exception in flight
WithExit ==
    /\ pc = "exit"
    /\ handles' = handles \ {img.path}
    /\ IF exc = ""
       THEN Return
       ELSE /\ pc' = "except"
            /\ UNCHANGED <<img, resized_img>>
    /\ UNCHANGED <<disk, disk0, run, i, filename, file_path, exc, out,
                   considered, existsLog, attempts, raisedLog, savedLog,
                   touched>>

\* a handler that prints the error line and raises the exception again
ExceptReraise ==
    /\ pc = "except"
    /\ out' = Append(out, ErrorLine(file_path, exc))
    /\ pc' = "crashed"
    /\ UNCHANGED <<disk, disk0, run, i, filename, file_path, img, resized_img,
                   handles, exc, considered, existsLog, attempts, raisedLog,
                   savedLog, touched>>

\* a handler that tries the file a second time after its first failure
ExceptRetry ==
    /\ pc = "except"
    /\ out' = Append(out, ErrorLine(file_path, exc))
    /\ exc' = ""
    /\ img' = NoImage
    /\ resized_img' = NoImage
    /\ IF Cardinality({k \in DOMAIN attempts : attempts[k] = file_path}) < 2
       THEN /\ pc' = "open"
            /\ attempts' = Append(attempts, file_path)
       ELSE /\ pc' = "for"
            /\ UNCHANGED attempts
    /\ UNCHANGED <<disk, disk0, run, i, filename, file_path, handles,
                   considered, existsLog, raisedLog, savedLog, touched>>

\* `except Exception as e`: print the error line; an exception the clause
\* does not catch leaves resize_image and main()
Except ==
    /\ pc = "except"
    /\ IF Catches(exc)
       THEN /\ out' = Append(out, ErrorLine(file_path, exc))
            /\ exc' = ""
            /\ Return
       ELSE /\ pc' = "crashed"
            /\ UNCHANGED <<out, exc, img, resized_img>>
    /\ UNCHANGED <<disk, disk0, run, i, filename, file_path, handles,
                   considered, existsLog, attempts, raisedLog, savedLog,
                   touched>>

---------------------------------------------------------------------------
(* Specifications *)

\* one step of main() or of resize_image()
Step ==
    \/ IterExists
    \/ IterMissing
    \/ ForEnd
    \/ OpenOk
    \/ OpenRaise
    \/ ResizeOk
    \/ ResizeRaise
    \/ SaveOk
    \/ SaveRaise
    \/ PrintSuccess
    \/ WithExit
    \/ Except

Next == Invoke \/ Step

\* one invocation of main() on any directory
Spec == Init /\ [][Next]_vars

\* the same, with the interpreter always taking the program's next step
FairSpec == Spec /\ WF_vars(Next)

\* a directory whose in-range files are all valid 128x128 images
InitValid == InitWith({Image(128, 128)}, LastFew)

NextTwice == Next \/ Reinvoke

\* main() invoked up to MaxRuns times in succession on such a directory
SpecTwice == InitValid /\ [][NextTwice]_vars

---------------------------------------------------------------------------
(* Vocabulary of the properties *)

\* the indices 1..50 of the names 001.png..050.png
Indices == FirstIndex .. LastIndex

InSeq(s, e) == \E k \in DOMAIN s : s[k] = e

Count(s, e) == Cardinality({k \in DOMAIN s : s[k] = e})

\* the file at path p exists and decodes to exactly 128x128
Is128(p) ==
    /\ p \in DOMAIN disk
    /\ disk[p].kind = "image"
    /\ disk[p].w = 128
    /\ disk[p].h = 128

ExceptionNames ==
    {"UnidentifiedImageError", "PermissionError", "FileNotFoundError",
     "OSError"}

\* the lines main() may print for each index 1..50
NotFoundLineAt == [n \in Indices |-> NotFoundLine(DiskName(n))]
SuccessLineAt == [n \in Indices |-> SuccessLine(PathAt[n])]
ErrorLinesAt ==
    [n \in Indices |-> {ErrorLine(PathAt[n], e) : e \in ExceptionNames}]

\* main() has returned
Returned == pc = "done"

\* resize_image is at work on the current index
InResize == pc \in {"open", "resize", "save", "print", "exit", "except"}

---------------------------------------------------------------------------
(* Properties *)

\* C1, as stated: after main() returns, every file NNN.png, N in 1..50, that
\* existed before the invocation exists and decodes to exactly 128x128.
C1_AsStated ==
    Returned =>
        \A n \in Indices :
            InRangePath(n) \in DOMAIN disk0 => Is128(InRangePath(n))

\* C1, amended: after main() returns, every file NNN.png, N in 1..50, that
\* existed before the invocation still exists, and it decodes to exactly
\* 128x128 unless open, resize or save raised for it.
C1_ExistingResizedUnlessRaised ==
    Returned =>
        \A n \in Indices :
            InRangePath(n) \in DOMAIN disk0 =>
                /\ InRangePath(n) \in DOMAIN disk
                /\ ~InSeq(raisedLog, InRangePath(n)) => Is128(InRangePath(n))

\* C1 witness: main() has returned, a 256x64 image has become 128x128 and
\* another existing file raised and is not 128x128.
C1_Witness ==
    /\ Returned
    /\ \E n, m \in Indices :
        /\ InRangePath(n) \in DOMAIN disk0
        /\ disk0[InRangePath(n)] = Image(256, 64)
        /\ Is128(InRangePath(n))
        /\ InRangePath(m) \in DOMAIN disk0
        /\ InSeq(raisedLog, InRangePath(m))
        /\ ~Is128(InRangePath(m))

\* C2: an exception of resize_image on one in-range file never leaves
\* resize_image; it gives one error line for that file and none for any
\* other; every other in-range file that existed as a valid image and did not
\* raise itself has been attempted and is 128x128 when main() returns.
C2_FailureContained ==
    /\ pc # "crashed"
    /\ Returned =>
        \A n \in Indices :
            /\ Cardinality({k \in DOMAIN out : out[k] \in ErrorLinesAt[n]})
                  = IF InSeq(raisedLog, PathAt[n]) THEN 1 ELSE 0
            /\ (/\ PathAt[n] \in DOMAIN disk0
                /\ disk0[PathAt[n]].kind = "image"
                /\ ~InSeq(raisedLog, PathAt[n]))
               => InSeq(attempts, PathAt[n]) /\ Is128(PathAt[n])

\* C2 witness: main() has returned, some file raised, and valid images at a
\* lower and at a higher index than the failing one are 128x128.
C2_Witness ==
    /\ Returned
    /\ \E lo, f, hi \in Indices :
        /\ lo < f
        /\ f < hi
        /\ InSeq(raisedLog, InRangePath(f))
        /\ {InRangePath(lo), InRangePath(hi)} \subseteq DOMAIN disk0
        /\ disk0[InRangePath(lo)] = Image(256, 64)
        /\ disk0[InRangePath(hi)] = Image(256, 64)
        /\ Is128(InRangePath(lo))
        /\ Is128(InRangePath(hi))

\* C3: main() always returns, and when it has returned the loop has taken
\* every index 1..50, whatever the outcome for each file; it never ends by
\* an exception.
C3_Terminates ==
    /\ <>Returned
    /\ [](pc # "crashed")
    /\ [](Returned =>
            /\ Len(considered) = 50
            /\ \A k \in Indices : considered[k] = k)

\* C3 witness: main() has returned after a success, a not-found and an error.
C3_Witness ==
    /\ Returned
    /\ Len(savedLog) > 0
    /\ Len(raisedLog) > 0
    /\ \E k \in DOMAIN existsLog : ~existsLog[k]

\* C4: a path that is not NNN.png, N in 1..50, in the script directory is
\* never opened or written by the image library, and it is on disk with the
\* same content as at the invocation, or absent as at the invocation.
C4_OtherPathsUntouched ==
    /\ touched \subseteq InRangePaths
    /\ \A p \in (DOMAIN disk0 \cup DOMAIN disk) \ InRangePaths :
        /\ p \in DOMAIN disk0
        /\ p \in DOMAIN disk
        /\ disk[p] = disk0[p]

\* C4 witness: main() has returned with the other paths on disk, after a
\* save that completed and a save that failed on in-range files.
C4_Witness ==
    /\ Returned
    /\ OtherPaths \subseteq DOMAIN disk
    /\ Len(savedLog) > 0
    /\ \E p \in InRangePaths \cap DOMAIN disk \cap DOMAIN disk0 :
        /\ disk[p].kind = "corrupt"
        /\ disk0[p].kind = "image"

\* C5: a name NNN.png, N in 1..50, that did not exist at the invocation
\* never exists afterwards and is never opened or written; when main() has
\* returned, its line of output is the not-found line.
C5_MissingStayMissing ==
    \A n \in Indices :
        InRangePath(n) \notin DOMAIN disk0 =>
            /\ InRangePath(n) \notin DOMAIN disk
            /\ InRangePath(n) \notin touched
            /\ Returned =>
                /\ Len(out) >= n
                /\ out[n] = NotFoundLineAt[n]

\* C5 witness: main() has returned, a missing name lies next to a file that
\* was saved.
C5_Witness ==
    /\ Returned
    /\ \E n \in Indices :
        /\ n + 1 \in Indices
        /\ InSeq(savedLog, InRangePath(n))
        /\ InRangePath(n + 1) \notin DOMAIN disk0

\* C6: resize_image is only ever called on names 001.png..050.png that
\* existed at the invocation, and when main() has returned it has been
\* called on every one of them.
C6_AttemptedAreExisting ==
    LET attempted == {attempts[k] : k \in DOMAIN attempts}
    IN  /\ attempted \subseteq InRangePaths \cap DOMAIN disk0
        /\ Returned => attempted = InRangePaths \cap DOMAIN disk0

\* C6 witness: main() has returned having attempted the first and the last
\* name and not one in between that was missing.
C6_Witness ==
    /\ Returned
    /\ InSeq(attempts, InRangePath(1))
    /\ InSeq(attempts, InRangePath(50))
    /\ ~InSeq(attempts, InRangePath(49))

\* C7: in one invocation the loop takes the indices 1, 2, .. in ascending
\* order, each once and none beyond 50; no file is attempted twice; and when
\* the loop is about to take the next index, or main() has returned, the
\* work on the previous index is finished: its line is printed, no exception
\* is in flight, no image is held.  While resize_image is at work, it is at
\* work on the index taken last.
C7_OnceEachInOrder ==
    /\ Len(considered) <= 50
    /\ \A k \in DOMAIN considered : considered[k] = k
    /\ \A j, k \in DOMAIN attempts : attempts[j] = attempts[k] => j = k
    /\ pc \in {"for", "done"} =>
        /\ Len(out) = Len(considered)
        /\ exc = ""
        /\ handles = {}
        /\ img = NoImage
        /\ resized_img = NoImage
    /\ InResize =>
        /\ Len(considered) > 0
        /\ i = considered[Len(considered)]
        /\ file_path = InRangePath(i)
        /\ Len(attempts) > 0
        /\ attempts[Len(attempts)] = file_path
        /\ Len(considered) - Len(out) \in {0, 1}
    /\ Returned =>
        /\ Len(considered) = 50
        /\ \A n \in Indices :
            Count(attempts, InRangePath(n))
              = IF InRangePath(n) \in DOMAIN disk0 THEN 1 ELSE 0

\* C7 witness: the loop is about to take index 50 after a failure on
\* index 49, which was attempted once.
C7_Witness ==
    /\ pc = "for"
    /\ i = 49
    /\ InSeq(raisedLog, InRangePath(49))
    /\ Count(attempts, InRangePath(49)) = 1

\* C8: each index taken gives exactly one line of output, in order: the
\* not-found line if and only if the path was absent at the existence check,
\* the success line if and only if the save completed, the error line if and
\* only if open, resize or save raised; no file has both a completed save and
\* an exception; when main() has returned there are exactly 50 lines.
C8_OneLinePerIndex ==
    /\ Len(considered) - Len(out) \in {0, 1}
    /\ Len(existsLog) = Len(considered)
    /\ \A k \in DOMAIN out :
        /\ k \in Indices
        /\ (out[k] = NotFoundLineAt[k]) <=> ~existsLog[k]
        /\ (out[k] = SuccessLineAt[k]) <=> InSeq(savedLog, PathAt[k])
        /\ (out[k] \in ErrorLinesAt[k]) <=> InSeq(raisedLog, PathAt[k])
        /\ ~(InSeq(savedLog, PathAt[k]) /\ InSeq(raisedLog, PathAt[k]))
        /\ \/ out[k] = NotFoundLineAt[k]
           \/ out[k] = SuccessLineAt[k]
           \/ out[k] \in ErrorLinesAt[k]
    /\ Returned => Len(out) = 50

\* C8 witness: main() has returned with 50 lines, among them a not-found
\* line, a success line and the error lines of a failed open, resize or save.
C8_Witness ==
    /\ Returned
    /\ Len(out) = 50
    /\ out[1] = SuccessLineAt[1]
    /\ out[2] = NotFoundLineAt[2]
    /\ out[49] = ErrorLine(PathAt[49], "UnidentifiedImageError")
    /\ out[50] = ErrorLine(PathAt[50], "PermissionError")

\* C9: at most one image handle is open at any time, and only on the current
\* file_path; none is open when the loop is about to take an index, when the
\* except clause runs (the with block has been left by an exception of
\* resize or save), or when main() has returned.
C9_HandleReleased ==
    /\ Cardinality(handles) <= 1
    /\ handles \subseteq {file_path}
    /\ pc \in {"idle", "for", "open", "except", "done", "crashed"} =>
        handles = {}
    /\ pc \in {"resize", "save", "print", "exit"} => handles = {file_path}

\* C9 witness: the except clause runs for an exception raised by save, after
\* the image was opened, and no handle is open.
C9_Witness ==
    /\ pc = "except"
    /\ img.path = file_path
    /\ resized_img # NoImage
    /\ handles = {}

\* C10, as stated: on a directory whose in-range files are all valid 128x128
\* images, every in-range file is 128x128 after the first run of main() and
\* after the second, and the same in-range files exist as before.
C10_AsStated ==
    Returned =>
        \A p \in InRangePaths :
            /\ p \in DOMAIN disk <=> p \in DOMAIN disk0
            /\ p \in DOMAIN disk => Is128(p)

\* C10, amended: on such a directory, after each run of main() the same
\* in-range files exist as before it, none has become a valid image of
\* another size, and every one is 128x128 except those for which a save has
\* raised and left the file cut or empty.
C10_NoDimensionDrift ==
    Returned =>
        \A p \in InRangePaths :
            /\ p \in DOMAIN disk <=> p \in DOMAIN disk0
            /\ p \in DOMAIN disk =>
                /\ disk[p].kind = "image" => Is128(p)
                /\ ~InSeq(raisedLog, p) => Is128(p)

\* C10 witness: the second run has returned, a file was saved in both runs
\* and is 128x128.
C10_Witness ==
    /\ Returned
    /\ run = 2
    /\ \E p \in InRangePaths : Count(savedLog, p) = 2 /\ Is128(p)

===========================================================================
